---- MODULE Spec2Model ----
(***************************************************************************)
(* Model of the decoy matching engine of pseq (src/src/decoy_matcher.py):  *)
(* DecoyMatcher.__init__ builds the bucket index and the availability      *)
(* flags, find_best_match runs the expanding-radius shell search and       *)
(* match_all drives it over the targets in input order.                    *)
(*                                                                         *)
(* A FastaRecord is modelled by its seq, a sequence of residue symbols.    *)
(* Records are referred to by their position in their list (Python keeps   *)
(* them by reference); positions are 1-based here and 0-based in the code. *)
(* Python's None is modelled by position 0 (no decoy).                     *)
(***************************************************************************)
EXTENDS Integers, Sequences, FiniteSets, TLC

\* ---------------------------------------------------------------- bounds

\* Largest number of decoys in the pool and of targets in one match_all call.
MaxDecoys == 2
MaxTargets == 2
\* Largest search window given to the constructor (the code's default is 2000).
MaxWindow == 2

\* Default weights of the constructor.
DefaultLenWeight == 1
DefaultKrWeight == 10

\* The residue sequences the records are drawn from: keys (0,0), (1,0), (1,1),
\* (2,0), (2,1) and (2,2).
Seqs ==
  { <<>>, <<"A">>, <<"K">>, <<"A", "A">>, <<"A", "K">>, <<"K", "R">> }

\* Weights given to the constructor in a run of the main specification.
Weights == {DefaultLenWeight, DefaultKrWeight}
\* Weights given to the constructor when invalid configurations are included.
AnyWeights == {-1, 0} \cup Weights
Windows == 0..MaxWindow

SeqsUpTo(S, n) == UNION {[1..k -> S] : k \in 0..n}

\* ---------------------------------------------------------------- state

VARIABLES
  pc,              \* "init", "ready", "loop", "searched", "done"
  decoys,          \* self.decoys
  len_weight,      \* self.len_weight
  kr_weight,       \* self.kr_weight
  max_len_window,  \* self.max_len_window
  max_kr_window,   \* self.max_kr_window
  by_len_kr,       \* self._by_len_kr: key -> positions, in insertion order
  used,            \* self._used
  targets,         \* the argument of match_all
  t,               \* position of the target of the current loop iteration
  res,             \* the result of find_best_match for target t
  pairs,           \* match_all's pairs: <<target position, decoy position>>
  rows,            \* match_all's rows
  unmatched,       \* match_all's unmatched: target positions
  run,             \* 1 in the first run, 2 in the repeated run
  first            \* the outputs of the first run, kept for comparison

vars == <<pc, decoys, len_weight, kr_weight, max_len_window, max_kr_window,
          by_len_kr, used, targets, t, res, pairs, rows, unmatched, run, first>>

\* ---------------------------------------------------------------- helpers

Abs(x) == IF x < 0 THEN -x ELSE x
Max(a, b) == IF a >= b THEN a ELSE b
Min(a, b) == IF a <= b THEN a ELSE b

RECURSIVE CountIf(_, _)
\* sum(1 for c in seq if c in syms)
CountIf(seq, syms) ==
  IF seq = <<>> THEN 0
  ELSE (IF Head(seq) \in syms THEN 1 ELSE 0) + CountIf(Tail(seq), syms)

\* _kr_count that counts one of the two residues only
_kr_count_k_only(seq) == CountIf(seq, {"K"})

_kr_count(seq) == CountIf(seq, {"K", "R"})
_k_count(seq) == CountIf(seq, {"K"})
_r_count(seq) == CountIf(seq, {"R"})

\* The key of a record in the bucket index.
KeyOf(seq) == <<Len(seq), _kr_count(seq)>>

\* dict.get(key): the bucket of key, empty when the key is absent.
Bucket(index, key) == IF key \in DOMAIN index THEN index[key] ELSE <<>>

\* self._by_len_kr.setdefault(key, []).append(i)
IndexAppend(index, key, i) ==
  [k \in (DOMAIN index) \cup {key} |->
     IF k = key THEN Append(Bucket(index, k), i) ELSE index[k]]

RECURSIVE BuildIndexFrom(_, _, _)
BuildIndexFrom(ds, i, index) ==
  IF i > Len(ds) THEN index
  ELSE BuildIndexFrom(ds, i + 1, IndexAppend(index, KeyOf(ds[i]), i))

\* The loop of __init__ over enumerate(decoys).
BuildIndex(ds) == BuildIndexFrom(ds, 1, <<>>)

\* The flags kept in a list shared by all matchers (a class attribute) and
\* created only when its length does not fit the pool.
SharedUsed(ds) ==
  IF DOMAIN used = 1..Len(ds) /\ ds # <<>> THEN used
  ELSE [i \in 1..Len(ds) |-> FALSE]

\* self._used = [False] * len(decoys)
FreshUsed(ds) == [i \in 1..Len(ds) |-> FALSE]

\* ---------------------------------------------------------------- search

\* best_i = best_score = best_dL = best_dKR = None
NoBest == [i |-> 0, score |-> 0, dL |-> 0, dKR |-> 0]

\* _iter_search_shell with krs = [kr + dKR] for dKR > 0: the keys below the
\* target's K+R count are left out.
_iter_search_shell_upper_kr(L, kr, dL, dKR) ==
  IF dL = 0 /\ dKR = 0 THEN << <<L, kr>> >>
  ELSE
    LET lens == IF dL = 0 THEN <<L>>
                ELSE IF dL > 0 THEN <<L - dL, L + dL>> ELSE <<>>
        krs  == IF dKR = 0 THEN <<kr>>
                ELSE IF dKR > 0 THEN <<kr + dKR>> ELSE <<>>
        nk   == Len(krs)
        grid == [n \in 1..(Len(lens) * nk) |->
                   <<lens[((n - 1) \div nk) + 1], krs[((n - 1) % nk) + 1]>>]
        axes == IF dL > 0 /\ dKR > 0
                THEN << <<L - dL, kr>>, <<L + dL, kr>>, <<L, kr + dKR>> >>
                ELSE <<>>
    IN grid \o axes

\* The keys _iter_search_shell yields, in the order it yields them.
_iter_search_shell(L, kr, dL, dKR) ==
  IF dL = 0 /\ dKR = 0 THEN << <<L, kr>> >>
  ELSE
    LET lens == IF dL = 0 THEN <<L>>
                ELSE IF dL > 0 THEN <<L - dL, L + dL>> ELSE <<>>
        krs  == IF dKR = 0 THEN <<kr>>
                ELSE IF dKR > 0 THEN <<kr - dKR, kr + dKR>> ELSE <<>>
        nk   == Len(krs)
        grid == [n \in 1..(Len(lens) * nk) |->
                   <<lens[((n - 1) \div nk) + 1], krs[((n - 1) % nk) + 1]>>]
        axes == IF dL > 0 /\ dKR > 0
                THEN << <<L - dL, kr>>, <<L + dL, kr>>,
                        <<L, kr - dKR>>, <<L, kr + dKR>> >>
                ELSE <<>>
    IN grid \o axes

RECURSIVE ScanBucket(_, _, _)
\* for j in reversed(idxs): if not self._used[j]: i = j; break
ScanBucket(idxs, n, u) ==
  IF n = 0 THEN 0
  ELSE IF ~u[idxs[n]] THEN idxs[n]
  ELSE ScanBucket(idxs, n - 1, u)

\* The scan without the test of the availability flag
LastOfBucket(idxs, u) == IF idxs = <<>> THEN 0 ELSE idxs[Len(idxs)]

RECURSIVE ScanBucketForward(_, _, _)
\* for j in idxs: the scan from the first-inserted entry on
ScanBucketForward(idxs, n, u) ==
  IF n > Len(idxs) THEN 0
  ELSE IF ~u[idxs[n]] THEN idxs[n]
  ELSE ScanBucketForward(idxs, n + 1, u)

\* The scan without reversed(): the first-inserted available entry
FirstUnused(idxs, u) == ScanBucketForward(idxs, 1, u)

\* The still-available position of a bucket that the scan selects (0: none).
LastUnused(idxs, u) == ScanBucket(idxs, Len(idxs), u)

\* score = len_weight * abs(key[0] - tL) + kr_weight * abs(key[1] - tkr)
Score(key, tL, tkr) ==
  len_weight * Abs(key[1] - tL) + kr_weight * Abs(key[2] - tkr)

\* The loop body without the comparison of the scores: the latest candidate wins.
ConsiderLatest(best, key, tL, tkr) ==
  LET i == LastUnused(Bucket(by_len_kr, key), used)
  IN IF i = 0 THEN best
     ELSE [i |-> i, score |-> Score(key, tL, tkr),
           dL |-> Abs(key[1] - tL), dKR |-> Abs(key[2] - tkr)]

\* The loop body with <= in place of <: a later candidate of equal score wins.
ConsiderLastTie(best, key, tL, tkr) ==
  LET i == LastUnused(Bucket(by_len_kr, key), used)
      score == Score(key, tL, tkr)
  IN IF i = 0 THEN best
     ELSE IF best.i = 0 \/ score <= best.score
          THEN [i |-> i, score |-> score,
                dL |-> Abs(key[1] - tL), dKR |-> Abs(key[2] - tkr)]
          ELSE best

\* The body of the loop over the keys of a shell: one key against the best so far.
Consider(best, key, tL, tkr) ==
  LET i == LastUnused(Bucket(by_len_kr, key), used)
      score == Score(key, tL, tkr)
  IN IF i = 0 THEN best
     ELSE IF best.i = 0 \/ score < best.score
          THEN [i |-> i, score |-> score,
                dL |-> Abs(key[1] - tL), dKR |-> Abs(key[2] - tkr)]
          ELSE best

RECURSIVE ScanKeys(_, _, _, _, _)
\* for key in self._iter_search_shell(tL, tkr, dL, dKR)
ScanKeys(keys, n, best, tL, tkr) ==
  IF n > Len(keys) THEN best
  ELSE ScanKeys(keys, n + 1, Consider(best, keys[n], tL, tkr), tL, tkr)

RECURSIVE ScanSplits(_, _, _, _, _, _)
\* for dL in range(dL_min, dL_max + 1), from dL on
ScanSplits(radius, dL, last, best, tL, tkr) ==
  IF dL > last THEN best
  ELSE LET dKR == radius - dL
           b == IF dKR < 0 \/ dKR > max_kr_window THEN best
                ELSE ScanKeys(_iter_search_shell(tL, tkr, dL, dKR), 1, best, tL, tkr)
       IN ScanSplits(radius, dL + 1, last, b, tL, tkr)

\* The last radius of the loop: range(0, max(max_dL, max_dKR) + 1).
LastRadius == Max(max_len_window, max_kr_window)

\* The break taken as soon as a candidate exists, whatever its score
EarlyStopOnFirstFound(radius, best) == best.i # 0

\* The break after a radius is processed.
EarlyStop(radius, best) ==
  best.i # 0 /\ radius > (best.score \div Max(1, Min(len_weight, kr_weight)))

\* dL_min = max(0, radius - max_dKR)
dL_min(radius) == Max(0, radius - max_kr_window)

\* dL_max = min(max_dL, radius), without the bound of the length window
dL_max_unclamped(radius) == radius

\* dL_max = min(max_dL, radius)
dL_max(radius) == Min(max_len_window, radius)

RECURSIVE ScanRadius(_, _, _, _)
\* for radius in range(0, max(max_dL, max_dKR) + 1), from radius on
ScanRadius(radius, best, tL, tkr) ==
  IF radius > LastRadius THEN best
  ELSE LET b == ScanSplits(radius, dL_min(radius), dL_max(radius), best, tL, tkr)
       IN IF EarlyStop(radius, b) THEN b
          ELSE ScanRadius(radius + 1, b, tL, tkr)

\* The search with the radius loop started at 1: range(1, ...)
BestMatchFromRadiusOne(target) ==
  ScanRadius(1, NoBest, Len(target), _kr_count(target))

\* The winner find_best_match selects for a target (NoBest: it returns None).
BestMatch(target) == ScanRadius(0, NoBest, Len(target), _kr_count(target))

\* find_best_match without the write of the flag
UsedUnchanged(best) == used

\* find_best_match marking the whole bucket of the winner as used
UsedWholeBucket(best) ==
  IF best.i = 0 THEN used
  ELSE [i \in DOMAIN used |->
          used[i] \/ KeyOf(decoys[i]) = KeyOf(decoys[best.i])]

\* self._used[best_i] = True, when a winner was selected
UsedAfterSearch(best) ==
  IF best.i = 0 THEN used ELSE [used EXCEPT ![best.i] = TRUE]

\* The MatchRow match_all builds for target position n and decoy position i;
\* the two names of the row are represented by the two positions.
MakeRow(n, i, score) ==
  LET ts == targets[n]
      ds == decoys[i]
      tK == _k_count(ts)
      tR == _r_count(ts)
      dK == _k_count(ds)
      dR == _r_count(ds)
  IN [target |-> n, decoy |-> i,
      target_len |-> Len(ts), decoy_len |-> Len(ds),
      target_k |-> tK, target_r |-> tR, decoy_k |-> dK, decoy_r |-> dR,
      target_kr |-> tK + tR, decoy_kr |-> dK + dR,
      len_diff |-> Abs(Len(ts) - Len(ds)),
      kr_diff |-> Abs((tK + tR) - (dK + dR)),
      score |-> score]

\* ---------------------------------------------------------------- actions

NoOutputs == [pairs |-> <<>>, rows |-> <<>>, unmatched |-> <<>>]

InitWith(ws) ==
  /\ pc = "init"
  /\ decoys \in SeqsUpTo(Seqs, MaxDecoys)
  /\ len_weight \in ws
  /\ kr_weight \in ws
  /\ max_len_window \in Windows
  /\ max_kr_window \in Windows
  /\ by_len_kr = <<>>
  /\ used = <<>>
  /\ targets = <<>>
  /\ t = 0
  /\ res = NoBest
  /\ pairs = <<>>
  /\ rows = <<>>
  /\ unmatched = <<>>
  /\ run = 1
  /\ first = NoOutputs

\* The constructor is called with positive weights.
Init == InitWith(Weights)

\* The constructor is called with any weights.
InitAnyWeight == InitWith(AnyWeights)

\* DecoyMatcher.__init__
Construct ==
  /\ pc = "init"
  /\ by_len_kr' = BuildIndex(decoys)
  /\ used' = FreshUsed(decoys)
  /\ pc' = "ready"
  /\ UNCHANGED <<decoys, len_weight, kr_weight, max_len_window, max_kr_window,
                 targets, t, res, pairs, rows, unmatched, run, first>>

\* match_all is called: its three lists are created and the loop starts.
MatchAll ==
  /\ pc = "ready"
  /\ \E ts \in (IF run = 1 THEN SeqsUpTo(Seqs, MaxTargets) ELSE {targets}) :
       targets' = ts
  /\ pairs' = <<>>
  /\ rows' = <<>>
  /\ unmatched' = <<>>
  /\ t' = 1
  /\ res' = NoBest
  /\ pc' = "loop"
  /\ UNCHANGED <<decoys, len_weight, kr_weight, max_len_window, max_kr_window,
                 by_len_kr, used, run, first>>

\* res = self.find_best_match(t)
FindBestMatch ==
  /\ pc = "loop"
  /\ t <= Len(targets)
  /\ LET best == BestMatch(targets[t])
     IN /\ res' = best
        /\ used' = UsedAfterSearch(best)
  /\ pc' = "searched"
  /\ UNCHANGED <<decoys, len_weight, kr_weight, max_len_window, max_kr_window,
                 by_len_kr, targets, t, pairs, rows, unmatched, run, first>>

\* if res is None: unmatched.append(t); continue
RecordUnmatched ==
  /\ pc = "searched"
  /\ res.i = 0
  /\ unmatched' = Append(unmatched, t)
  /\ t' = t + 1
  /\ pc' = "loop"
  /\ UNCHANGED <<decoys, len_weight, kr_weight, max_len_window, max_kr_window,
                 by_len_kr, used, targets, res, pairs, rows, run, first>>

\* The loop body with pairs.append left out
RecordMatchRowOnly ==
  /\ pc = "searched"
  /\ res.i # 0
  /\ rows' = Append(rows, MakeRow(t, res.i, res.score))
  /\ t' = t + 1
  /\ pc' = "loop"
  /\ UNCHANGED <<decoys, len_weight, kr_weight, max_len_window, max_kr_window,
                 by_len_kr, used, targets, res, pairs, unmatched, run, first>>

\* The rest of the loop body: the row is built and the pairing appended.
RecordMatch ==
  /\ pc = "searched"
  /\ res.i # 0
  /\ pairs' = Append(pairs, <<t, res.i>>)
  /\ rows' = Append(rows, MakeRow(t, res.i, res.score))
  /\ t' = t + 1
  /\ pc' = "loop"
  /\ UNCHANGED <<decoys, len_weight, kr_weight, max_len_window, max_kr_window,
                 by_len_kr, used, targets, res, unmatched, run, first>>

\* return pairs, rows, unmatched
Return ==
  /\ pc = "loop"
  /\ t > Len(targets)
  /\ pc' = "done"
  /\ UNCHANGED <<decoys, len_weight, kr_weight, max_len_window, max_kr_window,
                 by_len_kr, used, targets, t, res, pairs, rows, unmatched,
                 run, first>>

\* The outputs match_all returns.
Outputs == [pairs |-> pairs, rows |-> rows, unmatched |-> unmatched]

\* The same program is run again: a fresh matcher on the same decoy pool and
\* configuration, then match_all on the same targets (cmd_generate_decoy).
Rerun ==
  /\ pc = "done"
  /\ run = 1
  /\ first' = Outputs
  /\ run' = 2
  /\ pc' = "init"
  /\ UNCHANGED <<decoys, len_weight, kr_weight, max_len_window, max_kr_window,
                 by_len_kr, used, targets, t, res, pairs, rows, unmatched>>

Next ==
  \/ Construct
  \/ MatchAll
  \/ FindBestMatch
  \/ RecordUnmatched
  \/ RecordMatch
  \/ Return

Spec == Init /\ [][Next]_vars

\* Invalid configurations included.
SpecAnyWeight == InitAnyWeight /\ [][Next]_vars

\* Two runs of the program on the same inputs.
NextTwice == Next \/ Rerun
SpecTwice == Init /\ [][NextTwice]_vars

\* ---------------------------------------------------------------- claims

Range(f) == {f[x] : x \in DOMAIN f}
PairTargets == {pairs[k][1] : k \in DOMAIN pairs}
PairDecoys == {pairs[k][2] : k \in DOMAIN pairs}
StrictlyIncreasing(f) == \A a, b \in DOMAIN f : a < b => f[a] < f[b]

\* C1: the pairings never contain the same decoy position twice: each decoy is
\* paired with at most one target.
C1_DecoyUniqueness ==
  \A a, b \in DOMAIN pairs : a # b => pairs[a][2] # pairs[b][2]

\* Two targets of the same key were both paired, with two decoys of one bucket.
C1_Witness ==
  /\ pc = "done"
  /\ Len(targets) = 2
  /\ KeyOf(targets[1]) = KeyOf(targets[2])
  /\ Len(pairs) = 2
  /\ KeyOf(decoys[pairs[1][2]]) = KeyOf(decoys[pairs[2][2]])

\* C2: when match_all returns, every target position is in exactly one of the
\* pairings and the unmatched list, both lists keep the input order, and the
\* rows have the length and the order of the pairings.
C2_PerfectSplit ==
  pc = "done" =>
    /\ \A n \in 1..Len(targets) : (n \in PairTargets) # (n \in Range(unmatched))
    /\ PairTargets \cup Range(unmatched) \subseteq 1..Len(targets)
    /\ Len(pairs) + Len(unmatched) = Len(targets)
    /\ StrictlyIncreasing([k \in DOMAIN pairs |-> pairs[k][1]])
    /\ StrictlyIncreasing(unmatched)
    /\ Len(rows) = Len(pairs)
    /\ \A k \in DOMAIN pairs :
         rows[k].target = pairs[k][1] /\ rows[k].decoy = pairs[k][2]

\* A run returned with a paired target and an unmatched one before it.
C2_Witness ==
  /\ pc = "done"
  /\ unmatched = <<1>>
  /\ Len(pairs) = 1
  /\ pairs[1][1] = 2

\* C3: every row's score is len_weight * len_diff + kr_weight * kr_diff, with
\* len_diff and kr_diff the absolute differences of the lengths and of the K+R
\* counts of the target and the decoy of the row.
C3_ScoreOfRow ==
  \A k \in DOMAIN rows :
    LET r == rows[k]
        ts == targets[r.target]
        ds == decoys[r.decoy]
    IN /\ r.target_len = Len(ts)
       /\ r.decoy_len = Len(ds)
       /\ r.target_kr = Cardinality({n \in DOMAIN ts : ts[n] \in {"K", "R"}})
       /\ r.decoy_kr = Cardinality({n \in DOMAIN ds : ds[n] \in {"K", "R"}})
       /\ r.len_diff = Abs(r.target_len - r.decoy_len)
       /\ r.kr_diff = Abs(r.target_kr - r.decoy_kr)
       /\ r.score = len_weight * r.len_diff + kr_weight * r.kr_diff

\* A row of a pairing that is not exact in length nor in K+R count, with a
\* decoy that holds both residues.
C3_Witness ==
  \E k \in DOMAIN rows :
    /\ rows[k].len_diff > 0
    /\ rows[k].kr_diff > 0
    /\ rows[k].decoy_k > 0
    /\ rows[k].decoy_r > 0

\* The K+R count of a sequence, counted by position.
KR(seq) == Cardinality({n \in DOMAIN seq : seq[n] \in {"K", "R"}})
\* The differences between target position n and decoy position i.
LenDiff(n, i) == Abs(Len(targets[n]) - Len(decoys[i]))
KrDiff(n, i) == Abs(KR(targets[n]) - KR(decoys[i]))
ScoreOf(n, i) == len_weight * LenDiff(n, i) + kr_weight * KrDiff(n, i)
InWindows(n, i) ==
  LenDiff(n, i) <= max_len_window /\ KrDiff(n, i) <= max_kr_window
\* Within both windows and within the largest radius the search visits.
InRegion(n, i) ==
  /\ InWindows(n, i)
  /\ LenDiff(n, i) + KrDiff(n, i) <= Max(max_len_window, max_kr_window)
ExactKey(n, i) == LenDiff(n, i) = 0 /\ KrDiff(n, i) = 0
Available == {i \in DOMAIN used : ~used[i]}
UsedSet == {i \in DOMAIN used : used[i]}
\* The step in which find_best_match runs for target t.
SearchStep == pc = "loop" /\ pc' = "searched"
PositiveWeights == len_weight > 0 /\ kr_weight > 0

\* C4: every pairing respects both windows, and a target for which no
\* still-available decoy lies within both windows goes to the unmatched list;
\* with both windows 0 only decoys of the target's exact key are paired, and
\* with an empty pool every target is unmatched.
C4_WindowsRespected ==
  /\ [](\A k \in DOMAIN pairs : InWindows(pairs[k][1], pairs[k][2]))
  /\ [][SearchStep /\ (\A i \in Available : ~InWindows(t, i)) => res'.i = 0]_vars
  /\ [][pc = "searched" /\ res.i = 0 => unmatched' = Append(unmatched, t)]_vars
  /\ [](max_len_window = 0 /\ max_kr_window = 0
          => \A k \in DOMAIN pairs : ExactKey(pairs[k][1], pairs[k][2]))
  /\ [](pc = "done" /\ decoys = <<>>
          => unmatched = [n \in 1..Len(targets) |-> n])

\* A run returned with a target unmatched although decoys were left, all of
\* them outside the windows, and with a pairing that is not exact in length.
C4_Witness ==
  /\ pc = "done"
  /\ Available # {}
  /\ \E n \in Range(unmatched) : \A i \in Available : ~InWindows(n, i)
  /\ \E k \in DOMAIN pairs : LenDiff(pairs[k][1], pairs[k][2]) > 0

\* C5 as stated: find_best_match returns a still-available decoy of minimal
\* score among ALL still-available decoys within both windows, and none only
\* when no still-available decoy lies within both windows.
C5_MinOverWindows ==
  [][SearchStep /\ PositiveWeights =>
       LET c == {i \in Available : InWindows(t, i)}
       IN IF res'.i = 0 THEN c = {}
          ELSE /\ res'.i \in c
               /\ res'.score = ScoreOf(t, res'.i)
               /\ \A j \in c : res'.score <= ScoreOf(t, j)]_vars

\* C5 as amended: the minimum is over the still-available decoys within both
\* windows whose dL + dKR is at most max(max_len_window, max_kr_window), the
\* last radius searched, and none is returned only when there is none of those.
C5_MinOverSearchedRegion ==
  [][SearchStep /\ PositiveWeights =>
       LET c == {i \in Available : InRegion(t, i)}
       IN IF res'.i = 0 THEN c = {}
          ELSE /\ res'.i \in c
               /\ res'.score = ScoreOf(t, res'.i)
               /\ \A j \in c : res'.score <= ScoreOf(t, j)]_vars

\* A search returned a winner that is not exact while a decoy of a strictly
\* larger score was available in the searched region.
C5_Witness ==
  /\ pc = "searched"
  /\ res.i # 0
  /\ res.score > 0
  /\ \E j \in Available : InRegion(t, j) /\ ScoreOf(t, j) > res.score

\* C6: when a still-available decoy has exactly the target's length and K+R
\* count as the target is processed, the target is paired with a decoy of
\* that key and the score is 0, for all positive weights and all windows.
C6_ExactMatchPreferred ==
  /\ [][SearchStep /\ PositiveWeights /\ (\E i \in Available : ExactKey(t, i)) =>
          /\ res'.i \in Available
          /\ ExactKey(t, res'.i)
          /\ res'.score = 0]_vars
  /\ [][pc = "searched" /\ res.i # 0 =>
          /\ pairs' = Append(pairs, <<t, res.i>>)
          /\ Len(rows') = Len(rows) + 1
          /\ rows'[Len(rows')].score = res.score]_vars

\* A search chose the exact decoy while another decoy, not exact, was
\* available within the windows.
C6_Witness ==
  /\ pc = "searched"
  /\ res.i # 0
  /\ ExactKey(t, res.i)
  /\ res.score = 0
  /\ \E j \in Available : InWindows(t, j) /\ ~ExactKey(t, j)

\* C7: no matcher with a non-positive weight reaches the search: its
\* construction fails.
C7_NonPositiveWeightRejected ==
  pc = "searched" => PositiveWeights

Pending == IF pc = "searched" /\ res.i # 0 THEN {res.i} ELSE {}

\* C9: the flags are write-once: they all start available, a used flag stays
\* used, a step changes at most the flag of the decoy a successful search
\* selected (none for an unmatched target), and the used positions are the
\* decoy positions of the pairings committed so far.
C9_FlagsWriteOnce ==
  /\ [](pc = "ready" => UsedSet = {} /\ DOMAIN used = DOMAIN decoys)
  /\ [](pc # "init" => UsedSet = PairDecoys \cup Pending)
  /\ [][pc # "init" =>
          /\ \A i \in DOMAIN used : used[i] => used'[i]
          /\ used' # used =>
               /\ SearchStep
               /\ res'.i \in Available
               /\ used' = [used EXCEPT ![res'.i] = TRUE]
          /\ SearchStep /\ res'.i = 0 => used' = used]_vars

\* A run returned with one decoy used, one left and one target unmatched.
C9_Witness ==
  /\ pc = "done"
  /\ UsedSet # {}
  /\ Available # {}
  /\ unmatched # <<>>

\* C10: a second run, with a fresh matcher on the same pool and configuration
\* and the same targets, returns the pairings, rows and unmatched list of the
\* first run.
C10_RunsAgree ==
  run = 2 /\ pc = "done" => Outputs = first

\* The second run returned, with a pairing and an unmatched target.
C10_Witness ==
  /\ run = 2
  /\ pc = "done"
  /\ pairs # <<>>
  /\ unmatched # <<>>

RECURSIVE ScanAllRadii(_, _, _, _)
\* The search of find_best_match run through every radius from radius to
\* max(max_len_window, max_kr_window), with no early stop.
ScanAllRadii(radius, best, tL, tkr) ==
  IF radius > Max(max_len_window, max_kr_window) THEN best
  ELSE ScanAllRadii(radius + 1,
         ScanSplits(radius, dL_min(radius), dL_max(radius), best, tL, tkr),
         tL, tkr)

ExhaustiveMatch(target) ==
  ScanAllRadii(0, NoBest, Len(target), KR(target))

\* The first radius after which the break is taken for the winner of a search.
StopRadius == (res.score \div Min(len_weight, kr_weight)) + 1

\* C11: with positive weights the early-termination rule never changes the
\* outcome: find_best_match returns the decoy position and the score of the
\* same search run through every radius with no early stop.
C11_EarlyStopKeepsOutcome ==
  [][SearchStep /\ PositiveWeights =>
       /\ res'.i = ExhaustiveMatch(targets[t]).i
       /\ res'.score = ExhaustiveMatch(targets[t]).score]_vars

\* A search stopped early, before the last radius, while a decoy was available
\* at a radius of the region that the stop left out.
C11_Witness ==
  /\ pc = "searched"
  /\ res.i # 0
  /\ StopRadius < Max(max_len_window, max_kr_window)
  /\ \E j \in Available :
       InRegion(t, j) /\ LenDiff(t, j) + KrDiff(t, j) > StopRadius

\* The key (length, K+R count) of decoy position i.
DecoyKey(i) == <<Len(decoys[i]), KR(decoys[i])>>

\* C12: the decoy returned is the last-inserted still-available one of the
\* winning bucket, i.e. the still-available decoy of the highest pool position
\* with the winner's key; used entries are skipped, stay in the bucket, and
\* the bucket lists are left unchanged by the scan.
C12_LastInsertedWins ==
  /\ [][SearchStep /\ res'.i # 0 =>
          /\ res'.i \in Available
          /\ \A j \in Available : DecoyKey(j) = DecoyKey(res'.i) => j <= res'.i]_vars
  /\ [][pc # "init" => by_len_kr' = by_len_kr]_vars
  /\ [](pc # "init" =>
          \A key \in DOMAIN by_len_kr :
            /\ StrictlyIncreasing(by_len_kr[key])
            /\ Range(by_len_kr[key]) = {i \in DOMAIN decoys : DecoyKey(i) = key})

\* The search for the second target skipped the used last entry of a bucket
\* of two and returned the first one.
C12_Witness ==
  /\ pc = "searched"
  /\ t = 2
  /\ Len(decoys) = 2
  /\ DecoyKey(1) = DecoyKey(2)
  /\ used[2]
  /\ res.i = 1

\* The place of the key of decoy i in the enumeration for target n: radius,
\* then dL, then L - dL before L + dL, then KR - dKR before KR + dKR.
Rank(n, i) ==
  << LenDiff(n, i) + KrDiff(n, i),
     LenDiff(n, i),
     IF Len(decoys[i]) > Len(targets[n]) THEN 1 ELSE 0,
     IF KR(decoys[i]) > KR(targets[n]) THEN 1 ELSE 0 >>

RECURSIVE LexLeqFrom(_, _, _)
LexLeqFrom(a, b, k) ==
  IF k > Len(a) THEN TRUE
  ELSE IF a[k] # b[k] THEN a[k] < b[k]
  ELSE LexLeqFrom(a, b, k + 1)

\* a comes before b, or is b, in the lexicographic order.
LexLeq(a, b) == LexLeqFrom(a, b, 1)

\* The still-available decoys of the searched region of minimal score for
\* target n.
MinScoreDecoys(n) ==
  {i \in Available :
     /\ InRegion(n, i)
     /\ \A j \in Available : InRegion(n, j) => ScoreOf(n, i) <= ScoreOf(n, j)}

\* C13: when several bucket keys hold a still-available decoy at the same
\* minimal score, the key enumerated first wins: radius ascending, then dL
\* ascending, then L - dL before L + dL and, for each length, KR - dKR before
\* KR + dKR; a later candidate of equal score never replaces it.
C13_FirstEnumeratedKeyWins ==
  [][SearchStep /\ res'.i # 0 =>
       /\ res'.i \in MinScoreDecoys(t)
       /\ \A j \in MinScoreDecoys(t) : LexLeq(Rank(t, res'.i), Rank(t, j))]_vars

\* A search returned a winner while a decoy of another key, enumerated later,
\* was available at the same minimal score.
C13_Witness ==
  /\ pc = "searched"
  /\ res.i # 0
  /\ \E j \in Available :
       /\ DecoyKey(j) # DecoyKey(res.i)
       /\ InRegion(t, j)
       /\ ScoreOf(t, j) = res.score

\* C14: the shells lose no key of the searched region: for every
\* still-available decoy with dL <= max_len_window, dKR <= max_kr_window and
\* dL + dKR <= max(max_len_window, max_kr_window) the target is matched with a
\* score of at most len_weight * dL + kr_weight * dKR, and every pairing has
\* len_diff + kr_diff <= max(max_len_window, max_kr_window).
C14_ShellsCoverRegion ==
  /\ [][SearchStep =>
          \A j \in Available :
            InRegion(t, j) => res'.i # 0 /\ res'.score <= ScoreOf(t, j)]_vars
  /\ [](\A k \in DOMAIN pairs :
          LenDiff(pairs[k][1], pairs[k][2]) + KrDiff(pairs[k][1], pairs[k][2])
            <= Max(max_len_window, max_kr_window))

\* A search returned a decoy of the region that differs from the target in
\* both the length and the K+R count, with the smaller K+R count.
C14_Witness ==
  /\ pc = "searched"
  /\ res.i # 0
  /\ LenDiff(t, res.i) > 0
  /\ KrDiff(t, res.i) > 0
  /\ KR(decoys[res.i]) < KR(targets[t])
  /\ InRegion(t, res.i)

====
